---- MODULE Spec2Model ----
(***************************************************************************)
(* Model of setup.py: the one-shot provisioning script that ensures the    *)
(* self-served crawler's ingest pipelines (and, through a separate         *)
(* function, the Vertex AI inference endpoint) exist in an Elasticsearch   *)
(* cluster.                                                                *)
(*                                                                         *)
(* A process is one Python interpreter.  It either runs the script         *)
(* (entry "__main__") or calls create_vertexai_embedding_inference_endpoint*)
(* directly, which the script itself never does.  The remote cluster is    *)
(* the shared variable `cluster`; every remote call is one step.           *)
(***************************************************************************)
EXTENDS Integers, Sequences, FiniteSets, TLC

\* ---------------------------------------------------------------- bounds
MaxRuns == 2
MaxOob == 1
MaxSecretLen == 2

\* two interpreters: one is enough for a run, two for a race
Procs == {1, 2}

\* ------------------------------------------------- identifiers (literals)
NORMALIZER == "es-crawler-normalizer-pipeline"
EMBEDDING == "es-crawler-embedding-pipeline"
COMPOSITE == "self-served-crawler-pipeline"
INFERENCE == "vertexai_embeddings"
EMBEDDING_MODEL_ID == "text-embedding-005"

Pipelines == {NORMALIZER, EMBEDDING, COMPOSITE}
Resources == Pipelines \cup {INFERENCE}

EnvVars == {"ES_HOST", "ES_PORT", "ES_API_KEY"}

MAIN == "__main__"
VERTEX == "create_vertexai_embedding_inference_endpoint"
Entries == {MAIN, VERTEX}

None == "None"
Unset == "unset"

\* the environments an interpreter is started in: complete, or one name unset
Environs == {EnvVars} \cup {EnvVars \ {v} : v \in EnvVars}

\* ------------------------------------------------- resource definitions
Proc(type, arg) == [type |-> type, arg |-> arg]

NormalizerProcessors ==
    << Proc("join", "JOIN_HEADERS_PROCESSOR"),
       Proc("set", "SET_BODY_PROCESSOR"),
       Proc("script", "REMOVE_FIELDS_PROCESSOR"),
       Proc("script", "SET_DATES_PROCESSOR"),
       Proc("uri_parts", "SPLIT_URL_PROCESSOR"),
       Proc("script", "NORMALIZED_URL_PROCESSOR"),
       Proc("remove", "REMOVE_TEMP_URL_PARTS_PROCESSOR") >>

NormalizerDef ==
    [description |-> "Pipeline to normalize crawled data",
     processors |-> NormalizerProcessors]

EmbeddingDef ==
    [description |-> "Pipeline to generate embeddings for crawled data",
     processors |-> << Proc("inference", "vertexai_embeddings") >>]

\* the composite pipeline names the two ids the earlier steps returned
CompositeDef(normalizer_pipeline_id, embedding_pipeline_id) ==
    [description |->
        "Pipeline for self-served crawler to normalize and generate embeddings",
     processors |-> << Proc("pipeline", "search-default-ingestion"),
                       Proc("pipeline", normalizer_pipeline_id),
                       Proc("pipeline", embedding_pipeline_id) >>]

InferenceDef(service_account_json) ==
    [task_type |-> "text_embedding",
     model_id |-> EMBEDDING_MODEL_ID,
     service_account_json |-> service_account_json,
     location |-> "us-central1",
     project_id |-> "snippets-api-434014"]

\* ------------------------------------------------- the secret payload
\* A payload is a short sequence of tokens; json.loads accepts a number or
\* a (possibly nested) array of one value.
Tokens == {"[", "]", "0"}

RECURSIVE SeqsUpTo(_)
SeqsUpTo(n) ==
    IF n = 0 THEN {<<>>}
    ELSE LET shorter == SeqsUpTo(n - 1)
         IN  shorter \cup {Append(s, t) : s \in shorter, t \in Tokens}

SecretPayloads == SeqsUpTo(MaxSecretLen)

RECURSIVE JsonLoads(_)
JsonLoads(s) ==
    IF Len(s) = 0 THEN FALSE
    ELSE IF Len(s) = 1 THEN s[1] = "0"
    ELSE /\ s[1] = "["
         /\ s[Len(s)] = "]"
         /\ \/ Len(s) = 2
            \/ JsonLoads(SubSeq(s, 2, Len(s) - 1))

\* ------------------------------------------------------------ state
VARIABLES
    cluster,      \* remote state: existing resource id -> its definition
    fault,        \* the remote call the cluster currently fails, if any
    oobCount,     \* number of out-of-band changes made to the cluster so far
    pc,           \* per process: position in the script
    entry,        \* per process: what the interpreter was started on
    environ,      \* per process: names set in os.environ
    cur,          \* per process: id the ensure call in progress is about
    log,          \* per process: remote calls issued by the current run
    rets,         \* per process: id -> value its ensure call returned
    saJson,       \* per process: SERVICE_ACCOUNT_JSON
    raised,       \* per process: an exception left the called function
    success,      \* per process: value create_self_served_crawler_pipelines returned
    exitCode,     \* per process: exit status of the interpreter (-1: running)
    runsLeft,     \* per process: runs still to be started
    startOob,     \* per process: oobCount when the current run started
    prev          \* per process: summary of the previous run

vars == << cluster, fault, oobCount, pc, entry, environ, cur, log, rets,
           saJson, raised, success, exitCode, runsLeft, startOob, prev >>

remoteVars == << cluster, fault, oobCount >>

\* a fault: existence checks of res fail with an error other than not-found
\* (op = "get"), or create calls of res are rejected (op = "put")
NoFault == [op |-> "none", res |-> "none"]
Faults == {NoFault} \cup [op : {"get", "put"}, res : Resources]

NoRets == [r \in Resources |-> Unset]
NoPrev == [entry |-> Unset, success |-> Unset, raised |-> FALSE, startOob |-> 0]

ForeignPipeline == [description |-> "managed by someone else", processors |-> << >>]
ForeignInference == InferenceDef(<< "0" >>)

\* the definitions a resource may already have in the cluster
KnownDefs(r) ==
    IF r = NORMALIZER THEN {NormalizerDef, ForeignPipeline}
    ELSE IF r = EMBEDDING THEN {EmbeddingDef, ForeignPipeline}
    ELSE IF r = COMPOSITE THEN {CompositeDef(NORMALIZER, EMBEDDING), ForeignPipeline}
    ELSE {ForeignInference}

Clusters ==
    UNION { { f \in [S -> UNION {KnownDefs(r) : r \in S}] :
                \A r \in S : f[r] \in KnownDefs(r) } : S \in SUBSET Resources }

Exists(r) == r \in DOMAIN cluster

With(f, r, d) == [x \in DOMAIN f \cup {r} |-> IF x = r THEN d ELSE f[x]]
Without(f, r) == [x \in DOMAIN f \ {r} |-> f[x]]

InitCommon ==
    /\ cluster \in Clusters
    /\ oobCount = 0
    /\ pc = [p \in Procs |-> "idle"]
    /\ entry = [p \in Procs |-> Unset]
    /\ environ = [p \in Procs |-> EnvVars]
    /\ cur = [p \in Procs |-> Unset]
    /\ log = [p \in Procs |-> << >>]
    /\ rets = [p \in Procs |-> NoRets]
    /\ saJson = [p \in Procs |-> << >>]
    /\ raised = [p \in Procs |-> FALSE]
    /\ success = [p \in Procs |-> Unset]
    /\ exitCode = [p \in Procs |-> -1]
    /\ startOob = [p \in Procs |-> 0]
    /\ prev = [p \in Procs |-> NoPrev]

\* one interpreter, started MaxRuns times in succession
Init ==
    /\ InitCommon
    /\ fault \in Faults
    /\ runsLeft = [p \in Procs |-> IF p = 1 THEN MaxRuns ELSE 0]

\* both interpreters run once, at the same time, against one healthy cluster
\* that nobody else touches
InitConc ==
    /\ InitCommon
    /\ fault = NoFault
    /\ runsLeft = [p \in Procs |-> 1]

\* ------------------------------------------------------------ remote calls
\* es_client.ingest.get_pipeline / es_client.inference.get
GetOutcome(r) ==
    IF fault = [op |-> "get", res |-> r] THEN "error"
    ELSE IF Exists(r) THEN "found"
    ELSE "notfound"

\* es_client.ingest.put_pipeline / es_client.inference.put_googlevertexai
\* put_pipeline replaces a pipeline of the same id; the inference API refuses
\* an id that is already taken
PutOutcome(r) ==
    IF fault = [op |-> "put", res |-> r] THEN "rejected"
    ELSE IF r = INFERENCE /\ Exists(r) THEN "rejected"
    ELSE "ok"

Call(op, r, out) == [op |-> op, res |-> r, out |-> out]
PutCall(r, out, d) == [op |-> "put", res |-> r, out |-> out, def |-> d]

\* ------------------------------------------------------------ the script
\* (variant: the found branch falls through to the create call)
EnsureBranchAlwaysCreate(outcome) ==
    IF outcome = "error" THEN "raise" ELSE "create"

\* (variant: a bare except around the existence check)
EnsureBranchBareExcept(outcome) ==
    IF outcome = "found" THEN "return" ELSE "create"

\* try / except NotFoundError around the existence check
EnsureBranch(outcome) ==
    IF outcome = "found" THEN "return"
    ELSE IF outcome = "notfound" THEN "create"
    ELSE "raise"

\* (variant: the composite chains its two pipelines in the wrong order)
DefinitionOfSwapped(p, r) ==
    IF r = NORMALIZER THEN NormalizerDef
    ELSE IF r = EMBEDDING THEN EmbeddingDef
    ELSE IF r = COMPOSITE THEN CompositeDef(rets[p][EMBEDDING], rets[p][NORMALIZER])
    ELSE InferenceDef(saJson[p])

\* the definition an ensure call passes to its create call
DefinitionOf(p, r) ==
    IF r = NORMALIZER THEN NormalizerDef
    ELSE IF r = EMBEDDING THEN EmbeddingDef
    ELSE IF r = COMPOSITE THEN CompositeDef(rets[p][NORMALIZER], rets[p][EMBEDDING])
    ELSE InferenceDef(saJson[p])

\* (variant: the returned ids are not tested before the next step)
AfterEnsureUngated(r, ret) ==
    IF r = NORMALIZER THEN [next |-> EMBEDDING, result |-> Unset]
    ELSE IF r = EMBEDDING THEN [next |-> COMPOSITE, result |-> Unset]
    ELSE IF ret = None THEN [next |-> Unset, result |-> "False"]
    ELSE [next |-> Unset, result |-> "True"]

\* create_self_served_crawler_pipelines: what follows the ensure call of r
\* once it returned ret.  next = Unset: the function returns `result`.
AfterEnsure(r, ret) ==
    IF ret = None THEN [next |-> Unset, result |-> "False"]
    ELSE IF r = NORMALIZER THEN [next |-> EMBEDDING, result |-> Unset]
    ELSE IF r = EMBEDDING THEN [next |-> COMPOSITE, result |-> Unset]
    ELSE [next |-> Unset, result |-> "True"]

\* get_es_client: os.environ[...] of the three variables
EnvComplete(present) == EnvVars \subseteq present

\* (variant: the answer of the ping is dropped)
PingAcceptedAlways(pingAns) == TRUE

\* get_es_client: assert es_client.ping()
PingAccepted(pingAns) == pingAns

\* (variant: the payload is returned without being parsed)
SecretOkUnparsed(reachable, payload) == reachable

\* fetch_gcp_secret: the payload is returned only if it parses
SecretOk(reachable, payload) == reachable /\ JsonLoads(payload)

\* __main__: exit status after the try / except / else
ExitStatus(didRaise, ok) ==
    IF didRaise THEN 0
    ELSE IF ok = "True" THEN 0
    ELSE 1

\* ------------------------------------------------------------ actions
\* the interpreter is started, on the script or on the endpoint function
Start(p) ==
    /\ pc[p] \in {"idle", "done"}
    /\ runsLeft[p] > 0
    /\ \E e \in Entries :
        /\ entry' = [entry EXCEPT ![p] = e]
        /\ IF e = MAIN
           THEN \E present \in Environs :
                    environ' = [environ EXCEPT ![p] = present]
           ELSE environ' = [environ EXCEPT ![p] = EnvVars]
        /\ pc' = [pc EXCEPT ![p] = IF e = MAIN THEN "client" ELSE "secret"]
        /\ cur' = [cur EXCEPT ![p] = IF e = MAIN THEN Unset ELSE INFERENCE]
    /\ runsLeft' = [runsLeft EXCEPT ![p] = @ - 1]
    /\ prev' = [prev EXCEPT ![p] =
                  IF pc[p] = "idle" THEN NoPrev
                  ELSE [entry |-> entry[p], success |-> success[p],
                        raised |-> raised[p], startOob |-> startOob[p]]]
    /\ startOob' = [startOob EXCEPT ![p] = oobCount]
    /\ log' = [log EXCEPT ![p] = << >>]
    /\ rets' = [rets EXCEPT ![p] = NoRets]
    /\ saJson' = [saJson EXCEPT ![p] = << >>]
    /\ raised' = [raised EXCEPT ![p] = FALSE]
    /\ success' = [success EXCEPT ![p] = Unset]
    /\ exitCode' = [exitCode EXCEPT ![p] = -1]
    /\ UNCHANGED remoteVars

\* an exception leaves the called function: the script's except clause
\* catches it, a direct caller of the endpoint function receives it
Raise(p) ==
    /\ raised' = [raised EXCEPT ![p] = TRUE]
    /\ pc' = [pc EXCEPT ![p] = IF entry[p] = MAIN THEN "report" ELSE "done"]
    /\ cur' = [cur EXCEPT ![p] = Unset]

\* get_es_client
GetEsClient(p) ==
    /\ pc[p] = "client"
    /\ \E pingAns \in BOOLEAN :
        IF ~EnvComplete(environ[p])
        THEN /\ Raise(p)
             /\ UNCHANGED log
        ELSE /\ log' = [log EXCEPT ![p] =
                          Append(@, Call("ping", "cluster",
                                         IF pingAns THEN "ok" ELSE "fail"))]
             /\ IF PingAccepted(pingAns)
                THEN /\ pc' = [pc EXCEPT ![p] = "get"]
                     /\ cur' = [cur EXCEPT ![p] = NORMALIZER]
                     /\ UNCHANGED raised
                ELSE Raise(p)
    /\ UNCHANGED << remoteVars, entry, environ, rets, saJson, success, exitCode,
                    runsLeft, startOob, prev >>

\* fetch_gcp_secret, called first thing by the endpoint function
FetchSecret(p) ==
    /\ pc[p] = "secret"
    /\ \E reachable \in BOOLEAN, payload \in SecretPayloads :
        /\ log' = [log EXCEPT ![p] =
                     Append(@, Call("secret", "snippets-api-project-service-account-json",
                                    IF ~reachable THEN "unreachable"
                                    ELSE IF JsonLoads(payload) THEN "json"
                                    ELSE "not-json"))]
        /\ IF SecretOk(reachable, payload)
           THEN /\ saJson' = [saJson EXCEPT ![p] = payload]
                /\ pc' = [pc EXCEPT ![p] = "get"]
                /\ UNCHANGED << raised, cur >>
           ELSE /\ Raise(p)
                /\ UNCHANGED saJson
    /\ UNCHANGED << remoteVars, entry, environ, rets, success, exitCode,
                    runsLeft, startOob, prev >>

\* the ensure call of r returns ret to its caller
Return(p, r, ret) ==
    /\ rets' = [rets EXCEPT ![p][r] = ret]
    /\ IF entry[p] = VERTEX
       THEN /\ pc' = [pc EXCEPT ![p] = "done"]
            /\ cur' = [cur EXCEPT ![p] = Unset]
            /\ UNCHANGED success
       ELSE LET a == AfterEnsure(r, ret)
            IN  IF a.next # Unset
                THEN /\ pc' = [pc EXCEPT ![p] = "get"]
                     /\ cur' = [cur EXCEPT ![p] = a.next]
                     /\ UNCHANGED success
                ELSE /\ pc' = [pc EXCEPT ![p] = "report"]
                     /\ cur' = [cur EXCEPT ![p] = Unset]
                     /\ success' = [success EXCEPT ![p] = a.result]

\* the existence check of an ensure call
GetResource(p) ==
    /\ pc[p] = "get"
    /\ LET r == cur[p]
           out == GetOutcome(r)
           br == EnsureBranch(out)
       IN  /\ log' = [log EXCEPT ![p] = Append(@, Call("get", r, out))]
           /\ IF br = "return"
              THEN Return(p, r, r) /\ UNCHANGED raised
              ELSE IF br = "create"
              THEN /\ pc' = [pc EXCEPT ![p] = "put"]
                   /\ UNCHANGED << cur, rets, success, raised >>
              ELSE Raise(p) /\ UNCHANGED << rets, success >>
    /\ UNCHANGED << remoteVars, entry, environ, saJson, exitCode, runsLeft, startOob, prev >>

\* the create call of an ensure call
PutResource(p) ==
    /\ pc[p] = "put"
    /\ LET r == cur[p]
           d == DefinitionOf(p, r)
           out == PutOutcome(r)
       IN  /\ log' = [log EXCEPT ![p] = Append(@, PutCall(r, out, d))]
           /\ cluster' = IF out = "ok" THEN With(cluster, r, d) ELSE cluster
           /\ Return(p, r, IF out = "ok" THEN r ELSE None)
    /\ UNCHANGED << fault, oobCount, entry, environ, saJson, raised,
                    exitCode, runsLeft, startOob, prev >>

\* __main__: the interpreter ends
Exit(p) ==
    /\ pc[p] = "report"
    /\ exitCode' = [exitCode EXCEPT ![p] = ExitStatus(raised[p], success[p])]
    /\ pc' = [pc EXCEPT ![p] = "done"]
    /\ UNCHANGED << remoteVars, entry, environ, cur, log, rets, saJson, raised, success,
                    runsLeft, startOob, prev >>

\* somebody else changes the cluster while no run is in progress
OutOfBand ==
    /\ oobCount < MaxOob
    /\ \A p \in Procs : pc[p] \in {"idle", "done"}
    /\ oobCount' = oobCount + 1
    /\ \/ \E r \in DOMAIN cluster :
            /\ cluster' = Without(cluster, r)
            /\ UNCHANGED fault
       \/ \E r \in Resources : \E d \in KnownDefs(r) :
            /\ IF r \in DOMAIN cluster THEN cluster[r] # d ELSE TRUE
            /\ cluster' = With(cluster, r, d)
            /\ UNCHANGED fault
       \/ \E f \in Faults \ {fault} :
            /\ fault' = f
            /\ UNCHANGED cluster
    /\ UNCHANGED << pc, entry, environ, cur, log, rets, saJson, raised, success,
                    exitCode, runsLeft, startOob, prev >>

Next ==
    \/ \E p \in Procs : Start(p)
    \/ \E p \in Procs : GetEsClient(p)
    \/ \E p \in Procs : FetchSecret(p)
    \/ \E p \in Procs : GetResource(p)
    \/ \E p \in Procs : PutResource(p)
    \/ \E p \in Procs : Exit(p)
    \/ OutOfBand

Spec == Init /\ [][Next]_vars

NextConc ==
    \/ \E p \in Procs : Start(p)
    \/ \E p \in Procs : GetEsClient(p)
    \/ \E p \in Procs : FetchSecret(p)
    \/ \E p \in Procs : GetResource(p)
    \/ \E p \in Procs : PutResource(p)
    \/ \E p \in Procs : Exit(p)

SpecConc == InitConc /\ [][NextConc]_vars

\* ------------------------------------------------------------ reading a log
Issued(p, op, r) ==
    \E i \in 1..Len(log[p]) : log[p][i].op = op /\ log[p][i].res = r

Answered(p, op, r, out) ==
    \E i \in 1..Len(log[p]) :
        log[p][i].op = op /\ log[p][i].res = r /\ log[p][i].out = out

IsPut(e) == e.op = "put"
IsGet(e) == e.op = "get"
Puts(p) == SelectSeq(log[p], IsPut)
Gets(p) == SelectSeq(log[p], IsGet)
PutIds(p) == [i \in 1..Len(Puts(p)) |-> Puts(p)[i].res]
PutsOf(p, r) == {i \in 1..Len(log[p]) : log[p][i].op = "put" /\ log[p][i].res = r}

\* the client factory handed a client to create_self_served_crawler_pipelines
Provisioning(p) == entry[p] = MAIN /\ Answered(p, "ping", "cluster", "ok")

Finished(p) == pc[p] = "done"

\* the literal definition of each resource, as the source spells it
LiteralDef(p, r) ==
    IF r = NORMALIZER THEN NormalizerDef
    ELSE IF r = EMBEDDING THEN EmbeddingDef
    ELSE IF r = COMPOSITE THEN CompositeDef(NORMALIZER, EMBEDDING)
    ELSE InferenceDef(saJson[p])

\* ------------------------------------------------------------ claims

\* C1: a second full run that follows a successful full run, with no
\* out-of-band change to the cluster since the first one started, issues no
\* create call, and its provisioning sequence returns success again.
SecondRunAfterSuccess(p) ==
    /\ entry[p] = MAIN
    /\ prev[p].entry = MAIN
    /\ prev[p].success = "True"
    /\ prev[p].startOob = startOob[p]

C1_Idempotent ==
    \A p \in Procs :
        SecondRunAfterSuccess(p) =>
            /\ Puts(p) = << >>
            /\ (Finished(p) /\ Provisioning(p)) =>
                   (success[p] = "True" /\ ~raised[p])

C1_Witness ==
    \E p \in Procs :
        /\ SecondRunAfterSuccess(p)
        /\ Finished(p)
        /\ Provisioning(p)
        /\ Len(Gets(p)) = 3
        /\ success[p] = "True"

\* C2: an ensure call whose existence check answered not-found issues exactly
\* one create call, carrying the literal definition of the resource; one whose
\* existence check answered found issues none and returns the id.
C2_EnsureCreatesOnce ==
    \A p \in Procs :
        /\ \A i \in 1..Len(log[p]) :
              log[p][i].op = "put" =>
                  /\ log[p][i].def = LiteralDef(p, log[p][i].res)
                  /\ log[p][i].res = INFERENCE =>
                         JsonLoads(log[p][i].def.service_account_json)
        /\ \A r \in Resources :
              /\ Cardinality(PutsOf(p, r)) <= 1
              /\ (rets[p][r] # Unset /\ Answered(p, "get", r, "notfound")) =>
                     Cardinality(PutsOf(p, r)) = 1
              /\ Answered(p, "get", r, "found") =>
                     (PutsOf(p, r) = {} /\ rets[p][r] = r)

C2_Witness ==
    \E p \in Procs :
        /\ entry[p] = MAIN
        /\ Finished(p)
        /\ Answered(p, "get", NORMALIZER, "found")
        /\ Answered(p, "get", EMBEDDING, "notfound")
        /\ Answered(p, "put", EMBEDDING, "ok")
        /\ Answered(p, "put", COMPOSITE, "ok")
        /\ Exists(COMPOSITE)
        /\ cluster[COMPOSITE] = CompositeDef(NORMALIZER, EMBEDDING)

C2_WitnessEndpoint ==
    \E p \in Procs :
        /\ entry[p] = VERTEX
        /\ Finished(p)
        /\ Answered(p, "get", INFERENCE, "notfound")
        /\ Answered(p, "put", INFERENCE, "ok")

\* C3: an existence check that fails with an error other than not-found is
\* the last call of its run: no create call for that resource follows, the
\* error leaves the ensure call and the provisioning sequence, and neither
\* returns a value.
C3_CheckErrorPropagates ==
    \A p \in Procs : \A r \in Resources :
        Answered(p, "get", r, "error") =>
            /\ log[p][Len(log[p])] = Call("get", r, "error")
            /\ PutsOf(p, r) = {}
            /\ raised[p]
            /\ rets[p][r] = Unset
            /\ success[p] = Unset

C3_Witness ==
    \E p \in Procs :
        /\ Answered(p, "get", EMBEDDING, "error")
        /\ Answered(p, "put", NORMALIZER, "ok")
        /\ ~Exists(EMBEDDING)
        /\ raised[p]

\* C4: each step is gated on the one before it.  Once the create call of the
\* normalizer is rejected, no call is issued for the embedding or the
\* composite pipeline; once that of the embedding pipeline is rejected, none
\* for the composite; in both cases the provisioning sequence returns False.
C4_FailFast ==
    \A p \in Procs :
        entry[p] = MAIN =>
            /\ Answered(p, "put", NORMALIZER, "rejected") =>
                  /\ \A op \in {"get", "put"} :
                        ~Issued(p, op, EMBEDDING) /\ ~Issued(p, op, COMPOSITE)
                  /\ success[p] = "False"
            /\ Answered(p, "put", EMBEDDING, "rejected") =>
                  /\ \A op \in {"get", "put"} : ~Issued(p, op, COMPOSITE)
                  /\ success[p] = "False"
            /\ Issued(p, "get", EMBEDDING) => rets[p][NORMALIZER] = NORMALIZER
            /\ Issued(p, "get", COMPOSITE) => rets[p][EMBEDDING] = EMBEDDING

C4_Witness ==
    \E p \in Procs :
        /\ entry[p] = MAIN
        /\ Finished(p)
        /\ Answered(p, "put", NORMALIZER, "rejected")
        /\ ~Exists(EMBEDDING)
        /\ ~Exists(COMPOSITE)
        /\ success[p] = "False"

C4_WitnessEmbedding ==
    \E p \in Procs :
        /\ entry[p] = MAIN
        /\ Finished(p)
        /\ Answered(p, "put", NORMALIZER, "ok")
        /\ Answered(p, "put", EMBEDDING, "rejected")
        /\ ~Exists(COMPOSITE)
        /\ success[p] = "False"

\* C5: the script exits 0 exactly when provisioning fully succeeded, and 1
\* on every other outcome, a raised exception included.
C5_ExitCode ==
    \A p \in Procs :
        (entry[p] = MAIN /\ Finished(p)) =>
            /\ exitCode[p] \in {0, 1}
            /\ exitCode[p] = 0 <=> (success[p] = "True" /\ ~raised[p])

\* C6: with every resource reported absent and every create accepted, a full
\* run creates normalizer, embedding pipeline, inference endpoint and
\* composite, in this order, and exits 0; with only the normalizer present it
\* creates the other three; every successful full run provisions the endpoint.
AllCreatesAccepted(p) ==
    \A i \in 1..Len(log[p]) : log[p][i].op = "put" => log[p][i].out = "ok"

OnlyFound(p, S) ==
    \A i \in 1..Len(log[p]) :
        log[p][i].op = "get" =>
            log[p][i].out = (IF log[p][i].res \in S THEN "found" ELSE "notfound")

C6_EndToEnd ==
    \A p \in Procs :
        (Provisioning(p) /\ Finished(p) /\ AllCreatesAccepted(p)) =>
            /\ OnlyFound(p, {}) =>
                  /\ PutIds(p) = << NORMALIZER, EMBEDDING, INFERENCE, COMPOSITE >>
                  /\ exitCode[p] = 0
            /\ OnlyFound(p, {NORMALIZER}) =>
                  /\ PutIds(p) = << EMBEDDING, INFERENCE, COMPOSITE >>
                  /\ exitCode[p] = 0
            /\ success[p] = "True" => Issued(p, "get", INFERENCE)

\* C7: no step of a run removes a resource or changes the definition of one
\* that exists; only an out-of-band change does.
C7_NeverOverwrites ==
    [][ oobCount' = oobCount =>
          \A r \in DOMAIN cluster :
              r \in DOMAIN cluster' /\ cluster'[r] = cluster[r] ]_vars

C7_Witness ==
    \E p \in Procs :
        /\ entry[p] = MAIN
        /\ Finished(p)
        /\ oobCount = 0
        /\ Answered(p, "get", NORMALIZER, "found")
        /\ Exists(NORMALIZER)
        /\ cluster[NORMALIZER] = ForeignPipeline
        /\ Answered(p, "put", EMBEDDING, "ok")
        /\ Exists(EMBEDDING)
        /\ cluster[EMBEDDING] = EmbeddingDef
        /\ Answered(p, "put", COMPOSITE, "rejected")
        /\ success[p] = "False"

\* C8: once the secret store answered with a payload that is not JSON, the
\* endpoint function has raised and the run issues no existence check and no
\* create call for the endpoint.
C8_SecretValidated ==
    \A p \in Procs :
        (\E i \in 1..Len(log[p]) :
             log[p][i].op = "secret" /\ log[p][i].out = "not-json") =>
            /\ raised[p]
            /\ ~Issued(p, "get", INFERENCE)
            /\ ~Issued(p, "put", INFERENCE)
            /\ rets[p][INFERENCE] = Unset

C8_Witness ==
    \E p \in Procs :
        /\ entry[p] = VERTEX
        /\ Finished(p)
        /\ \E i \in 1..Len(log[p]) :
              log[p][i].op = "secret" /\ log[p][i].out = "not-json"
        /\ ~Exists(INFERENCE)
        /\ raised[p]

\* C9: a run of the script issues an existence check or a create call only
\* with the three variables set and after a ping that answered; with a
\* variable unset it issues no remote call at all and raises.
C9_ClientGate ==
    \A p \in Procs :
        entry[p] = MAIN =>
            /\ (\E i \in 1..Len(log[p]) : log[p][i].op \in {"get", "put"}) =>
                  /\ environ[p] = EnvVars
                  /\ log[p][1] = Call("ping", "cluster", "ok")
            /\ environ[p] # EnvVars =>
                  /\ log[p] = << >>
                  /\ pc[p] # "client" => raised[p]

C9_Witness ==
    \E p \in Procs :
        /\ entry[p] = MAIN
        /\ environ[p] = EnvVars
        /\ log[p] = << Call("ping", "cluster", "fail") >>
        /\ raised[p]
        /\ Finished(p)

C9_WitnessMissing ==
    \E p \in Procs :
        /\ entry[p] = MAIN
        /\ environ[p] = EnvVars \ {"ES_API_KEY"}
        /\ raised[p]
        /\ Finished(p)

\* C10: a run issues a create call on its own not-found answer alone, whatever
\* the other run has done in between; so two concurrent runs that both saw a
\* resource absent both create it.
C10_CreateFollowsOwnCheck ==
    \A p \in Procs : \A i \in 1..Len(log[p]) :
        log[p][i].op = "put" =>
            /\ i > 1
            /\ log[p][i - 1] = Call("get", log[p][i].res, "notfound")

C10_Witness ==
    \E r \in Pipelines :
        \A p \in Procs :
            /\ Answered(p, "get", r, "notfound")
            /\ Answered(p, "put", r, "ok")

====
